---- MODULE Spec2Model ----
(***************************************************************************)
(* Macro expansion engine (src/llama_swap_config_autogen/generator.py) and *)
(* validation of configuration documents (validator.py,                    *)
(* validation_models.py) of llama_swap_config_autogen.                     *)
(*                                                                         *)
(* A Python str is a sequence of one-character strings; a dict is a        *)
(* function; a list is a sequence.  Python indexes from 0, the sequences   *)
(* here from 1, so every index of the source appears one higher.           *)
(***************************************************************************)
EXTENDS Integers, Sequences, FiniteSets, TLC

VARIABLES
    op,             \* the operation that produced the current state
    dedup_input,    \* deduplicate_parameters: its argument expanded_value
    deduped,        \* deduplicate_parameters: its return value
    deduped_again,  \* the return value of a second call, on deduped
    all_macros,     \* the macro table: macro name -> raw expression
    macro_name,     \* expand_macro: its argument macro_name
    expanded,       \* expand_macro: its outcome, a string or the ValueError
    expanded_again, \* the outcome of a second call with the same arguments
    last_visited,   \* the set object bound to visited in the last top-level call
    commands,       \* extract_used_macros_from_commands: its argument commands
    used_macros,    \* extract_used_macros_from_commands: its outcome
    found_models,   \* generate_full_config: the models found, in sorted order
    output_config,  \* generate_full_config: its outcome
    source,         \* validation: what is handed in, a text, a file or a mapping
    calls,          \* ValidationResult: the add_error and add_warning calls made
    result          \* the ValidationResult object, or the outcome of a validation

dedup_vars == <<dedup_input, deduped, deduped_again>>
expand_vars == <<macro_name, expanded, expanded_again, last_visited>>
extract_vars == <<commands, used_macros>>
config_vars == <<found_models, output_config>>
validation_vars == <<source, calls, result>>
vars == <<op, all_macros, dedup_vars, expand_vars, extract_vars, config_vars,
          validation_vars>>

(***************************************************************************)
(* Bounds of the model.                                                    *)
(***************************************************************************)
\* longest argument of deduplicate_parameters, in characters
MaxLen == 8
\* most words in the raw expression of the macro a
MaxWords == 2
\* most commands in the argument of extract_used_macros_from_commands
MaxCmds == 2
\* most models that generate_full_config finds
MaxModels == 2
\* most add_error and add_warning calls on one ValidationResult
MaxCalls == 4

(***************************************************************************)
(* str primitives of Python used by the source.                            *)
(***************************************************************************)
\* str.split() without arguments separates on whitespace
IsSpace(c) == c \in {" ", "\t", "\n"}

RECURSIVE SplitFrom(_, _, _, _)
SplitFrom(s, i, cur, acc) ==
    IF i > Len(s)
    THEN IF cur = <<>> THEN acc ELSE Append(acc, cur)
    ELSE IF IsSpace(s[i])
         THEN SplitFrom(s, i + 1, <<>>, IF cur = <<>> THEN acc ELSE Append(acc, cur))
         ELSE SplitFrom(s, i + 1, Append(cur, s[i]), acc)

\* s.split(): the maximal runs of non-whitespace characters, in order
Split(s) == SplitFrom(s, 1, <<>>, <<>>)

RECURSIVE JoinFrom(_, _, _)
JoinFrom(sep, toks, k) ==
    IF k > Len(toks) THEN <<>>
    ELSE IF k = Len(toks) THEN toks[k]
    ELSE toks[k] \o sep \o JoinFrom(sep, toks, k + 1)

\* sep.join(toks)
Join(sep, toks) == JoinFrom(sep, toks, 1)

\* token.startswith("-")
startswith_dash(token) == Len(token) >= 1 /\ token[1] = "-"

\* [s[i] for i in sorted(indices)]
RECURSIVE SelectFrom(_, _, _)
SelectFrom(s, indices, i) ==
    IF i > Len(s) THEN <<>>
    ELSE (IF i \in indices THEN <<s[i]>> ELSE <<>>) \o SelectFrom(s, indices, i + 1)

Range(f) == {f[x] : x \in DOMAIN f}

(***************************************************************************)
(* deduplicate_parameters                                                  *)
(***************************************************************************)
\* inner while loop: the index of the first token at or after j that is a
\* flag, or Len(tokens) + 1
RECURSIVE value_end(_, _)
value_end(tokens, j) ==
    IF j <= Len(tokens) /\ ~startswith_dash(tokens[j])
    THEN value_end(tokens, j + 1)
    ELSE j

\* param_occurrences[token] = (i, value_indices): a later occurrence of the
\* same flag overwrites the entry
record_keep_first(param_occurrences, token, i, value_indices) ==
    IF token \in DOMAIN param_occurrences
    THEN param_occurrences
    ELSE (token :> <<i, value_indices>>) @@ param_occurrences

record_occurrence(param_occurrences, token, i, value_indices) ==
    (token :> <<i, value_indices>>) @@ param_occurrences

\* the condition of the outer while loop, negated
scan_done_early(tokens, i) == i >= Len(tokens)

scan_done(tokens, i) == i > Len(tokens)

\* outer while loop of deduplicate_parameters
RECURSIVE scan_tokens(_, _, _, _)
scan_tokens(tokens, i, param_occurrences, standalone_tokens) ==
    IF scan_done(tokens, i)
    THEN [param_occurrences |-> param_occurrences,
          standalone_tokens |-> standalone_tokens]
    ELSE IF startswith_dash(tokens[i])
         THEN LET j == value_end(tokens, i + 1)
                  value_indices == [k \in 1..(j - i - 1) |-> i + k]
              IN  scan_tokens(tokens, j,
                      record_occurrence(param_occurrences, tokens[i], i, value_indices),
                      standalone_tokens)
         ELSE scan_tokens(tokens, i + 1, param_occurrences,
                          (i :> tokens[i]) @@ standalone_tokens)

\* the set built from param_occurrences.values() and standalone_tokens.keys()
indices_to_include(scan) ==
    UNION {{scan.param_occurrences[f][1]} \cup Range(scan.param_occurrences[f][2]) :
              f \in DOMAIN scan.param_occurrences}
    \cup DOMAIN scan.standalone_tokens

\* a rebuild that walks param_occurrences in dict order (the order in which
\* the flags were first met) instead of sorting the indices
RECURSIVE DictOrderFrom(_, _, _)
DictOrderFrom(tokens, scan, i) ==
    IF i > Len(tokens) THEN <<>>
    ELSE LET po == scan.param_occurrences
             first == \A k \in 1..(i - 1) : tokens[k] # tokens[i]
             block == IF i \in DOMAIN scan.standalone_tokens THEN <<tokens[i]>>
                      ELSE IF tokens[i] \in DOMAIN po /\ first
                      THEN <<tokens[i]>> \o
                           [k \in 1..Len(po[tokens[i]][2]) |-> tokens[po[tokens[i]][2][k]]]
                      ELSE <<>>
         IN  block \o DictOrderFrom(tokens, scan, i + 1)

rebuild_in_dict_order(tokens, scan) == DictOrderFrom(tokens, scan, 1)

\* result = [tokens[i] for i in sorted(indices_to_include)]
rebuild(tokens, scan) == SelectFrom(tokens, indices_to_include(scan), 1)

deduplicate_parameters(s) ==
    LET tokens == Split(s)
        scan == scan_tokens(tokens, 1, <<>>, <<>>)
    IN  Join(<<" ">>, rebuild(tokens, scan))

(***************************************************************************)
(* expand_macro                                                            *)
(***************************************************************************)
\* f"${{{name}}}": the reference token of a macro name
Ref(name) == <<"$", "{">> \o name \o <<"}">>

\* the index of the first "}" at or after p, or 0 when there is none
RECURSIVE CloseFrom(_, _)
CloseFrom(s, p) ==
    IF p > Len(s) THEN 0
    ELSE IF s[p] = "}" THEN p
    ELSE CloseFrom(s, p + 1)

\* re.findall(r"\$\{([^}]+)\}", s): the names of the leftmost, non-overlapping
\* matches. A match at p is "${", one or more characters other than "}", and
\* the first "}" that follows; "${}" and an unclosed "${" do not match, and
\* the scan then resumes at p + 1.
RECURSIVE FindAllFrom(_, _)
FindAllFrom(s, p) ==
    IF p + 3 > Len(s) THEN <<>>
    ELSE IF s[p] = "$" /\ s[p + 1] = "{"
         THEN LET q == CloseFrom(s, p + 2)
              IN  IF q > p + 2
                  THEN <<SubSeq(s, p + 2, q - 1)>> \o FindAllFrom(s, q + 1)
                  ELSE FindAllFrom(s, p + 1)
         ELSE FindAllFrom(s, p + 1)

FindAll(s) == FindAllFrom(s, 1)

StartsAt(s, old, p) ==
    /\ p + Len(old) - 1 <= Len(s)
    /\ \A k \in 1..Len(old) : s[p + k - 1] = old[k]

\* s.replace(old, new): every non-overlapping occurrence of old, left to
\* right; the text put in is not scanned again
RECURSIVE ReplaceFrom(_, _, _, _)
ReplaceFrom(s, old, new, p) ==
    IF p > Len(s) THEN <<>>
    ELSE IF StartsAt(s, old, p)
         THEN new \o ReplaceFrom(s, old, new, p + Len(old))
         ELSE <<s[p]>> \o ReplaceFrom(s, old, new, p + 1)

Replace(s, old, new) == ReplaceFrom(s, old, new, 1)

\* An outcome of expand_macro: the returned string, or the ValueError with
\* the macro name its message carries. visited is the state in which the
\* call leaves the set object it was given.
Returned(value, visited) == [err |-> FALSE, val |-> value, visited |-> visited]
ValueError(name, visited) == [err |-> TRUE, val |-> name, visited |-> visited]

NoOutcome == [err |-> FALSE, val |-> <<>>]

\* a revisit that hands the token back instead of raising
circular_passthrough(name, visited) == Returned(Ref(name), visited)

\* raise ValueError(f"Circular macro reference detected: {macro_name}")
circular_error(name, visited) == ValueError(name, visited)

\* a token written without its braces
passthrough_unbraced(name) == <<"$">> \o name

\* return f"${{{macro_name}}}" for a name that is not in the table
passthrough_token(name) == Ref(name)

\* the callee working on the caller's own set object
visited_shared(visited, callee_visited) == callee_visited

\* The recursive call receives visited.copy(): what the callee adds to its
\* set is not seen by the caller, whose set is the same after the call.
visited_after_call(visited, callee_visited) == visited

\* a default argument evaluated once and shared by all calls
fresh_visited_reused(previous) == previous

\* if visited is None: visited = set(); previous is the set object of the
\* call before, which the new one does not depend on
fresh_visited(previous) == {}

RECURSIVE expand_macro(_, _, _)
RECURSIVE expand_nested(_, _, _, _, _)

\* the body of expand_macro; visited0 is the set object on entry
expand_macro(name, table, visited0) ==
    IF name \in visited0 THEN circular_error(name, visited0)
    ELSE IF name \notin DOMAIN table
    THEN Returned(passthrough_token(name), visited0)
    ELSE LET visited == visited0 \cup {name}
             macro_value == table[name]
             nested_macros == FindAll(macro_value)
             r == expand_nested(nested_macros, 1, macro_value, table, visited)
         IN  IF r.err THEN r
             ELSE Returned(deduplicate_parameters(r.val), r.visited)

\* the for loop over nested_macros, from its k-th element on
expand_nested(nested_macros, k, expanded_value, table, visited) ==
    IF k > Len(nested_macros) THEN Returned(expanded_value, visited)
    ELSE LET nested_macro == nested_macros[k]
         IN  IF nested_macro \in DOMAIN table
             THEN LET e == expand_macro(nested_macro, table, visited)
                      after == visited_after_call(visited, e.visited)
                  IN  IF e.err THEN ValueError(e.val, after)
                      ELSE expand_nested(nested_macros, k + 1,
                               Replace(expanded_value, Ref(nested_macro), e.val),
                               table, after)
             ELSE expand_nested(nested_macros, k + 1, expanded_value, table, visited)

(***************************************************************************)
(* extract_used_macros_from_commands                                       *)
(*                                                                         *)
(* The returned dict is a sequence of <<name, value>> pairs in insertion   *)
(* order. An outcome is that dict, or an exception that left the call.     *)
(***************************************************************************)
Mapping(items) == [raised |-> FALSE, items |-> items]
Escaped == [raised |-> TRUE, items |-> <<>>]
NoMapping == Mapping(<<>>)

Keys(items) == {items[i][1] : i \in DOMAIN items}

\* d[key] = value on a dict: a new key goes to the end, a present key keeps
\* its place
DictSet(items, key, value) ==
    IF key \in Keys(items)
    THEN [i \in DOMAIN items |->
             IF items[i][1] = key THEN <<key, value>> ELSE items[i]]
    ELSE Append(items, <<key, value>>)

\* a first loop that assigns the names of a command instead of adding them
RECURSIVE to_process_reset(_, _, _)
to_process_reset(cmds, k, to_process) ==
    IF k > Len(cmds) THEN to_process
    ELSE to_process_reset(cmds, k + 1, Range(FindAll(cmds[k])))

\* the first loop: to_process after the commands from the k-th on
RECURSIVE to_process_from(_, _, _)
to_process_from(cmds, k, to_process) ==
    IF k > Len(cmds) THEN to_process
    ELSE to_process_from(cmds, k + 1, to_process \cup Range(FindAll(cmds[k])))

\* every order without repetition of the elements of S
Orders(S) ==
    {o \in [1..Cardinality(S) -> S] : \A i, j \in DOMAIN o : i # j => o[i] # o[j]}

\* "for macro_name in to_process": to_process is a set of str, and the order
\* in which a set yields its elements is not fixed by the program (it
\* follows the hashes of the strings, which change from run to run): any
\* order may occur.
iteration_orders(cmds) == Orders(to_process_from(cmds, 1, {}))

\* a loop without the test for undefined names
skip_nothing(name, table) == FALSE

\* if macro_name not in all_macros: continue
skip_undefined(name, table) == name \notin DOMAIN table

\* a handler that lets the ValueError through
handler_reraises(outcome, raw) ==
    IF outcome.err THEN [escaped |-> TRUE, val |-> <<>>]
    ELSE [escaped |-> FALSE, val |-> outcome.val]

\* try: expand_macro(...) except ValueError: keep all_macros[macro_name]
\* (the warning it prints is no part of the state)
try_expand(outcome, raw) ==
    [escaped |-> FALSE, val |-> IF outcome.err THEN raw ELSE outcome.val]

\* the second loop, over the names of order from the k-th on
RECURSIVE process_from(_, _, _, _)
process_from(order, k, table, items) ==
    IF k > Len(order) THEN Mapping(items)
    ELSE IF skip_undefined(order[k], table)
         THEN process_from(order, k + 1, table, items)
         ELSE LET outcome == expand_macro(order[k], table, fresh_visited({}))
                  raw == IF order[k] \in DOMAIN table THEN table[order[k]] ELSE <<>>
                  got == try_expand(outcome, raw)
              IN  IF got.escaped THEN Escaped
                  ELSE process_from(order, k + 1, table,
                                    DictSet(items, order[k], got.val))

\* the call, for one iteration order of to_process
extract_used_macros_from_commands(order, table) == process_from(order, 1, table, <<>>)

(***************************************************************************)
(* generate_full_config                                                    *)
(*                                                                         *)
(* A found model is the pair of its file path and the macro chosen for it  *)
(* (get_model_macro for a model file, the "macro" of a variant for a       *)
(* variant).  The outcome is the returned document, a function from its    *)
(* keys (under "models" the commands of the models, in their order), or   *)
(* an exception.                                                           *)
(***************************************************************************)
Document(doc) == [raised |-> FALSE, doc |-> doc]
\* an exception left the call: the ValueError of generate_model_configs when
\* no model is found, or one that a callee let through
ConfigRaised == [raised |-> TRUE, doc |-> <<>>]
NoDocument == Document(<<>>)

endswith_brace(s) == Len(s) >= 1 /\ s[Len(s)] = "}"

\* the text of every command in front of the macro
CommandPrefix(model_path) ==
    <<"$", "{", "b", "i", "n", "a", "r", "y", "}", " ", "-", "m", " ">>
    \o model_path
    \o <<" ", "-", "-", "p", "o", "r", "t", " ", "$", "{", "P", "O", "R", "T", "}",
         " ", "-", "-", "h", "o", "s", "t", " ", "0", ".", "0", ".", "0", ".", "0", " ">>

format_command_with_macro(model_path, name) ==
    IF StartsAt(name, <<"$", "{">>, 1) /\ endswith_brace(name)
    THEN CommandPrefix(model_path) \o name
    ELSE CommandPrefix(model_path) \o Ref(name)

\* all_commands: the command of every model, in the order of the models
all_commands_of(models) ==
    [i \in DOMAIN models |-> format_command_with_macro(models[i][1], models[i][2])]

\* a test that takes the mapping without looking whether it is empty
used_macros_any(mapping) == TRUE

\* if used_macros:
used_macros_truthy(mapping) == mapping # <<>>

\* the document for one iteration order of to_process
generate_full_config(models, table, order) ==
    IF models = <<>> THEN ConfigRaised
    ELSE LET all_commands == all_commands_of(models)
             base == [k \in {"healthCheckTimeout", "logLevel", "startPort", "models"} |->
                         CASE k = "healthCheckTimeout" -> 240
                           [] k = "logLevel" -> "info"
                           [] k = "startPort" -> 9091
                           [] k = "models" -> all_commands]
         IN  IF DOMAIN table # {} /\ all_commands # <<>>
             THEN LET got == extract_used_macros_from_commands(order, table)
                  IN  IF got.raised THEN ConfigRaised
                      ELSE IF used_macros_truthy(got.items)
                           THEN Document(base @@ ("macros" :> got.items))
                           ELSE Document(base)
             ELSE Document(base)

(***************************************************************************)
(* ValidationResult (src/llama_swap_config_autogen/validator.py)           *)
(***************************************************************************)
\* __init__(is_valid) with no errors and no warnings given
ValidationResult(is_valid) == [is_valid |-> is_valid, errors |-> <<>>, warnings |-> <<>>]

\* no validation has run and no result object exists
NoSource == [kind |-> "none"]
NoResult == [raised |-> FALSE, report |-> ValidationResult(TRUE)]

\* an add_error that records the error and leaves the flag
add_error_keeps_flag(r, error) == [r EXCEPT !.errors = Append(@, error)]

add_error(r, error) == [r EXCEPT !.errors = Append(@, error), !.is_valid = FALSE]

add_warning(r, warning) == [r EXCEPT !.warnings = Append(@, warning)]

(***************************************************************************)
(* Inputs of deduplicate_parameters: every string over DedupAlphabet of    *)
(* at most MaxLen characters.                                              *)
(***************************************************************************)
DedupAlphabet == {"-", "f", "v", " "}

DedupInputs == UNION {[1..n -> DedupAlphabet] : n \in 0..MaxLen}

InitDedup ==
    /\ op = "init"
    /\ dedup_input \in DedupInputs
    /\ deduped = <<>>
    /\ deduped_again = <<>>
    /\ all_macros = <<>>
    /\ macro_name = <<>>
    /\ expanded = NoOutcome
    /\ expanded_again = NoOutcome
    /\ last_visited = {}
    /\ commands = <<>>
    /\ used_macros = NoMapping
    /\ found_models = <<>>
    /\ output_config = NoDocument
    /\ source = NoSource
    /\ calls = <<>>
    /\ result = NoResult

\* a call deduplicate_parameters(dedup_input)
Deduplicate ==
    /\ op = "init"
    /\ op' = "dedup"
    /\ deduped' = deduplicate_parameters(dedup_input)
    /\ UNCHANGED <<dedup_input, deduped_again, all_macros, expand_vars, extract_vars, config_vars, validation_vars>>

\* a second call, on the string the first call returned
DeduplicateAgain ==
    /\ op = "dedup"
    /\ op' = "again"
    /\ deduped_again' = deduplicate_parameters(deduped)
    /\ UNCHANGED <<dedup_input, deduped, all_macros, expand_vars, extract_vars, config_vars, validation_vars>>

NextDedup == Deduplicate \/ DeduplicateAgain

SpecDedup == InitDedup /\ [][NextDedup]_vars

(***************************************************************************)
(* Inputs of expand_macro: tables over the macro names a, b and c. The     *)
(* raw expression of a is any sentence of at most MaxWords words, or one   *)
(* of the expressions of EdgeValues, in which tokens touch other text; b   *)
(* and c range over expressions that build chains, diamonds and cycles     *)
(* with a. Absent stands for a name the table does not define.             *)
(***************************************************************************)
A == <<"a">>
B == <<"b">>
C == <<"c">>
U == <<"u">>
PORT == <<"P", "O", "R", "T">>
Flag == <<"-", "f">>
V == <<"v">>
W == <<"w">>
Absent == <<"absent">>

Words == {Ref(A), Ref(B), Ref(C), Ref(PORT), Flag, V}

Sentences(words, n) ==
    {Join(<<" ">>, ws) : ws \in UNION {[1..k -> words] : k \in 0..n}}

EdgeValues ==
    { Ref(C) \o <<"{", "b", "}">> \o Ref(B),       \* ${c}{b}${b}
      Ref(B) \o Ref(C) \o <<"{", "b", "}">>,       \* ${b}${c}{b}
      Ref(C) \o Ref(B),                            \* ${c}${b}
      Ref(B) \o <<"-">> \o W,                      \* ${b}-w
      Flag \o <<" ">> \o Ref(PORT) \o <<" ">> \o Flag \o <<" ">> \o Ref(B),
      Ref(B) \o <<" ">> \o Ref(C) \o <<" ">> \o Ref(B),
      <<"$", "{", "}", " ">> \o Ref(B) \o <<" ", "$", "{", "c">>,
      Flag \o <<" ", " ">> \o Ref(U) \o <<" ">> }

AValues == Sentences(Words, MaxWords) \cup EdgeValues \cup {Absent}

BValues ==
    { Absent, W, Flag \o <<" ">> \o W, Ref(A), Ref(B), Ref(C),
      Ref(C) \o <<" ">> \o W, Ref(C) \o <<"-">> \o W,
      Flag \o <<" ">> \o Ref(PORT), Ref(PORT) \o <<" ">> \o Flag,
      <<"{", "c", "}">> }

CValues ==
    { Absent, V, Flag \o <<" ">> \o V, Ref(A), Ref(B), Ref(C),
      <<"$">>, Ref(PORT) }

\* the dict with the given raw expressions, without the absent names
Table(a, b, c) ==
    LET all == (A :> a) @@ (B :> b) @@ (C :> c)
    IN  [n \in {x \in {A, B, C} : all[x] # Absent} |-> all[n]]

ExpandTables == {Table(a, b, c) : a \in AValues, b \in BValues, c \in CValues}

\* the names expand_macro is called with
ExpandNames == {A, B, C, PORT}

InitExpand ==
    /\ op = "init"
    /\ all_macros \in ExpandTables
    /\ macro_name = <<>>
    /\ expanded = NoOutcome
    /\ expanded_again = NoOutcome
    /\ last_visited = {}
    /\ dedup_input = <<>>
    /\ deduped = <<>>
    /\ deduped_again = <<>>
    /\ commands = <<>>
    /\ used_macros = NoMapping
    /\ found_models = <<>>
    /\ output_config = NoDocument
    /\ source = NoSource
    /\ calls = <<>>
    /\ result = NoResult

\* a call expand_macro(name, all_macros)
ExpandMacro ==
    /\ op = "init"
    /\ \E name \in ExpandNames :
          LET r == expand_macro(name, all_macros, fresh_visited(last_visited))
          IN  /\ macro_name' = name
              /\ expanded' = [err |-> r.err, val |-> r.val]
              /\ last_visited' = r.visited
    /\ op' = "expand"
    /\ UNCHANGED <<all_macros, expanded_again, dedup_vars, extract_vars, config_vars, validation_vars>>

\* a second call expand_macro(macro_name, all_macros), with the same table
ExpandMacroAgain ==
    /\ op = "expand"
    /\ LET r == expand_macro(macro_name, all_macros, fresh_visited(last_visited))
       IN  /\ expanded_again' = [err |-> r.err, val |-> r.val]
           /\ last_visited' = r.visited
    /\ op' = "expand_again"
    /\ UNCHANGED <<all_macros, macro_name, expanded, dedup_vars, extract_vars, config_vars, validation_vars>>

NextExpand == ExpandMacro \/ ExpandMacroAgain

SpecExpand == InitExpand /\ [][NextExpand]_vars

(***************************************************************************)
(* Inputs of extract_used_macros_from_commands: at most MaxCmds commands,  *)
(* each one of Commands, over tables whose raw expressions come from       *)
(* ExtractValues.                                                          *)
(***************************************************************************)
X == <<"x">>

Commands ==
    { Ref(A) \o <<" ">> \o Ref(B),
      Ref(B) \o <<" ">> \o Ref(A) \o <<" ">> \o Ref(B),
      X \o <<" ">> \o Ref(PORT) \o <<" ">> \o Ref(C),
      Ref(C) \o <<" ">> \o Ref(A),
      Ref(U) \o <<" ">> \o X }

ExtractValues ==
    { Absent, V, Ref(A), Ref(B), Ref(C),
      Flag \o <<" ">> \o Ref(PORT) \o <<" ">> \o Flag }

ExtractTables ==
    {Table(a, b, c) : a \in ExtractValues, b \in ExtractValues, c \in ExtractValues}

InitExtract ==
    /\ op = "init"
    /\ all_macros \in ExtractTables
    /\ commands \in UNION {[1..n -> Commands] : n \in 0..MaxCmds}
    /\ used_macros = NoMapping
    /\ found_models = <<>>
    /\ output_config = NoDocument
    /\ source = NoSource
    /\ calls = <<>>
    /\ result = NoResult
    /\ macro_name = <<>>
    /\ expanded = NoOutcome
    /\ expanded_again = NoOutcome
    /\ last_visited = {}
    /\ dedup_input = <<>>
    /\ deduped = <<>>
    /\ deduped_again = <<>>

\* a call extract_used_macros_from_commands(commands, all_macros)
ExtractUsedMacros ==
    /\ op = "init"
    /\ \E order \in iteration_orders(commands) :
          used_macros' = extract_used_macros_from_commands(order, all_macros)
    /\ op' = "extract"
    /\ UNCHANGED <<all_macros, commands, dedup_vars, expand_vars, config_vars, validation_vars>>

NextExtract == ExtractUsedMacros

SpecExtract == InitExtract /\ [][NextExtract]_vars

(***************************************************************************)
(* Inputs of generate_full_config: at most MaxModels found models, over    *)
(* tables that may define a, b and binary.                                 *)
(***************************************************************************)
Binary == <<"b", "i", "n", "a", "r", "y">>
DefaultParams == <<"d", "e", "f", "a", "u", "l", "t", "-", "p", "a", "r", "a", "m", "s">>

ModelMacros == { A, B, DefaultParams, Ref(A) \o <<" ">> \o Ref(B) }

\* a model file under a plain path with any of the macros, or under a path
\* that holds a token itself
FoundModels ==
    ({<<"/", "m">>} \X ModelMacros) \cup {<<(<<"/">> \o Ref(A)), DefaultParams>>}

ConfigTable(a, b, bin) ==
    LET all == (A :> a) @@ (B :> b) @@ (Binary :> bin)
    IN  [n \in {x \in {A, B, Binary} : all[x] # Absent} |-> all[n]]

ConfigTables ==
    {ConfigTable(a, b, bin) : a \in {Absent, V, Ref(B), Ref(A)},
                              b \in {Absent, V, Ref(A)},
                              bin \in {Absent, <<"l">>}}

InitConfig ==
    /\ op = "init"
    /\ all_macros \in ConfigTables
    /\ found_models \in UNION {[1..n -> FoundModels] : n \in 0..MaxModels}
    /\ output_config = NoDocument
    /\ source = NoSource
    /\ calls = <<>>
    /\ result = NoResult
    /\ commands = <<>>
    /\ used_macros = NoMapping
    /\ macro_name = <<>>
    /\ expanded = NoOutcome
    /\ expanded_again = NoOutcome
    /\ last_visited = {}
    /\ dedup_input = <<>>
    /\ deduped = <<>>
    /\ deduped_again = <<>>

\* a call generate_full_config(settings, config)
GenerateFullConfig ==
    /\ op = "init"
    /\ \E order \in iteration_orders(all_commands_of(found_models)) :
          output_config' = generate_full_config(found_models, all_macros, order)
    /\ op' = "config"
    /\ UNCHANGED <<all_macros, found_models, dedup_vars, expand_vars, extract_vars,
                   validation_vars>>

NextConfig == GenerateFullConfig

SpecConfig == InitConfig /\ [][NextConfig]_vars

(***************************************************************************)
(* Vocabulary of the deduplication properties, stated on token lists       *)
(* without reference to the scan above.                                    *)
(***************************************************************************)
Flags(toks) == {toks[i] : i \in {k \in DOMAIN toks : startswith_dash(toks[k])}}

Occurrences(toks, f) == {i \in DOMAIN toks : toks[i] = f}

FirstIndex(toks, f) ==
    CHOOSE i \in Occurrences(toks, f) : \A k \in Occurrences(toks, f) : i <= k

LastIndex(toks, f) ==
    CHOOSE i \in Occurrences(toks, f) : \A k \in Occurrences(toks, f) : k <= i

\* the number of contiguous non-flag tokens that follow position p
RunLen(toks, p) ==
    CHOOSE n \in 0..(Len(toks) - p) :
        /\ \A d \in 1..n : ~startswith_dash(toks[p + d])
        /\ p + n = Len(toks) \/ startswith_dash(toks[p + n + 1])

InTokens == Split(dedup_input)
OutTokens == Split(deduped)

\* C5: rightmost wins. In the output every flag of the input occurs exactly
\* once and is followed by exactly the value tokens that followed its
\* rightmost occurrence in the input; the output holds no other flag and is
\* its tokens joined by single spaces.
C5_RightmostWins ==
    op # "init" =>
        /\ deduped = Join(<<" ">>, OutTokens)
        /\ Flags(OutTokens) = Flags(InTokens)
        /\ \A f \in Flags(InTokens) :
              /\ Cardinality(Occurrences(OutTokens, f)) = 1
              /\ LET k == FirstIndex(OutTokens, f)
                     p == LastIndex(InTokens, f)
                     n == RunLen(InTokens, p)
                 IN  /\ RunLen(OutTokens, k) = n
                     /\ \A d \in 1..n : OutTokens[k + d] = InTokens[p + d]

\* a flag occurs twice, both times with a value, and the values differ
C5_Witness ==
    /\ op = "dedup"
    /\ \E f \in Flags(InTokens) :
          LET a == FirstIndex(InTokens, f)
              b == LastIndex(InTokens, f)
          IN  /\ a < b
              /\ RunLen(InTokens, a) >= 1
              /\ RunLen(InTokens, b) >= 1
              /\ InTokens[a + 1] # InTokens[b + 1]

\* C6: deduplication is idempotent: the second call returns its argument,
\* the string the first call returned.
C6_Idempotent == op = "again" => deduped_again = deduped

\* the first call dropped a superseded flag together with its value
C6_Witness ==
    /\ op = "again"
    /\ Len(OutTokens) >= 2
    /\ \E f \in Flags(InTokens) :
          /\ FirstIndex(InTokens, f) < LastIndex(InTokens, f)
          /\ RunLen(InTokens, FirstIndex(InTokens, f)) >= 1

\* position of flag f in the output
OutPos(f) == FirstIndex(OutTokens, f)

Refs(table, m) == {x \in Range(FindAll(table[m])) : x \in DOMAIN table}

RECURSIVE Closure(_, _, _)
Closure(table, S, k) ==
    IF k = 0 THEN S
    ELSE Closure(table, S \cup UNION {Refs(table, m) : m \in S}, k - 1)

\* the defined macros on a reference chain that starts at name (name included)
Reach(table, name) ==
    IF name \in DOMAIN table
    THEN Closure(table, {name}, Cardinality(DOMAIN table))
    ELSE {}

\* m lies on a reference cycle
OnCycle(table, m) == \E x \in Refs(table, m) : m \in Reach(table, x)

\* some chain from name revisits a macro
CycleReachable(table, name) == \E m \in Reach(table, name) : OnCycle(table, m)

Called == op \in {"expand", "expand_again"}

\* C1: when a reference chain from macro_name revisits a macro, expand_macro
\* raises the circular-reference error, and the name in the error is a
\* macro on a cycle that a chain from macro_name reaches.
C1_CycleRaises ==
    (Called /\ CycleReachable(all_macros, macro_name)) =>
        /\ expanded.err
        /\ expanded.val \in Reach(all_macros, macro_name)
        /\ OnCycle(all_macros, expanded.val)

\* a mutual cycle a -> b -> a, entered at a: the error names a
C1_Witness ==
    /\ op = "expand"
    /\ macro_name = A
    /\ {A, B} \subseteq DOMAIN all_macros
    /\ Refs(all_macros, A) = {B}
    /\ Refs(all_macros, B) = {A}
    /\ expanded = [err |-> TRUE, val |-> A]

\* C2: when no reference chain from macro_name revisits a macro, expand_macro
\* returns a string, and a second call with the same table returns the
\* same string.
C2_AcyclicReturns ==
    (Called /\ ~CycleReachable(all_macros, macro_name)) =>
        /\ ~expanded.err
        /\ op = "expand_again" => expanded_again = expanded

\* a diamond: a references b and c, and b references c again
C2_Witness ==
    /\ op = "expand_again"
    /\ macro_name = A
    /\ {A, B, C} = DOMAIN all_macros
    /\ Refs(all_macros, A) = {B, C}
    /\ Refs(all_macros, B) = {C}
    /\ Refs(all_macros, C) = {}
    /\ ~expanded.err

\* no reference cycle is reachable from any defined macro
Acyclic(table) == \A m \in DOMAIN table : ~CycleReachable(table, m)

\* the value expand_macro returns for a name, called on its own
Expansion(table, name) == expand_macro(name, table, {}).val

\* s with every ${ref} token whose ref is a table key replaced by the
\* expansion of ref, in one pass over the tokens of s
RECURSIVE SubstituteTokensFrom(_, _, _)
SubstituteTokensFrom(s, table, p) ==
    IF p > Len(s) THEN <<>>
    ELSE LET q == IF p + 3 <= Len(s) /\ s[p] = "$" /\ s[p + 1] = "{"
                  THEN CloseFrom(s, p + 2) ELSE 0
         IN  IF q > p + 2
             THEN LET ref == SubSeq(s, p + 2, q - 1)
                  IN  (IF ref \in DOMAIN table
                       THEN Expansion(table, ref)
                       ELSE SubSeq(s, p, q))
                      \o SubstituteTokensFrom(s, table, q + 1)
             ELSE <<s[p]>> \o SubstituteTokensFrom(s, table, p + 1)

SubstituteTokens(s, table) == SubstituteTokensFrom(s, table, 1)

\* C3: in a table without cycles, the expansion of a defined macro is the
\* deduplication of its raw expression with every token of a defined macro
\* replaced by that macro's expansion.
C3_TokenSubstitution ==
    (Called /\ macro_name \in DOMAIN all_macros /\ Acyclic(all_macros)) =>
        /\ ~expanded.err
        /\ expanded.val =
              deduplicate_parameters(
                  SubstituteTokens(all_macros[macro_name], all_macros))

\* sub occurs in s
Contains(s, sub) == \E p \in 1..(Len(s) - Len(sub) + 1) : StartsAt(s, sub, p)

\* the names of the tokens of m's raw expression that are no table keys
UndefinedRefs(table, m) == {x \in Range(FindAll(table[m])) : x \notin DOMAIN table}

Substituted(table, m) ==
    expand_nested(FindAll(table[m]), 1, table[m], table, {m}).val

\* deduplication drops no token of the substituted expression of m
NoDrop(table, m) ==
    Len(Split(deduplicate_parameters(Substituted(table, m))))
        = Len(Split(Substituted(table, m)))

\* a name without whitespace, "$" and braces
PlainName(x) == \A i \in DOMAIN x : ~IsSpace(x[i]) /\ x[i] \notin {"$", "{", "}"}

RECURSIVE AllMatches(_, _)
AllMatches(cmds, k) ==
    IF k > Len(cmds) THEN <<>> ELSE FindAll(cmds[k]) \o AllMatches(cmds, k + 1)

\* names without its repetitions: each name at its first occurrence
RECURSIVE DiscoveryFrom(_, _)
DiscoveryFrom(names, k) ==
    IF k > Len(names) THEN <<>>
    ELSE (IF \E i \in 1..(k - 1) : names[i] = names[k] THEN <<>> ELSE <<names[k]>>)
         \o DiscoveryFrom(names, k + 1)

\* the defined macros that the commands reference
ReferencedDefined == Range(AllMatches(commands, 1)) \cap DOMAIN all_macros

\* the values that the returned dict holds for name
ValuesOf(name) ==
    {used_macros.items[i][2] :
        i \in {k \in DOMAIN used_macros.items : used_macros.items[k][1] = name}}

\* C8: no exception leaves extract_used_macros_from_commands; a referenced
\* defined macro from which a reference cycle is reachable is mapped to its
\* raw expression, every other referenced defined macro to its expansion.
C8_CycleFallsBackToRaw ==
    op = "extract" =>
        /\ ~used_macros.raised
        /\ \A name \in ReferencedDefined :
              ValuesOf(name) =
                  {IF CycleReachable(all_macros, name)
                   THEN all_macros[name]
                   ELSE Expansion(all_macros, name)}

\* the commands reference a cyclic macro and a macro whose expansion differs
\* from its raw expression
C8_Witness ==
    /\ op = "extract"
    /\ \E m \in ReferencedDefined :
          CycleReachable(all_macros, m) /\ ValuesOf(m) = {all_macros[m]}
    /\ \E m \in ReferencedDefined :
          ~CycleReachable(all_macros, m) /\ ValuesOf(m) # {all_macros[m]}

\* C9: every key of the returned dict is a key of the macro table.
C9_OnlyDefinedKeys ==
    op = "extract" => Keys(used_macros.items) \subseteq DOMAIN all_macros

\* the commands reference PORT and an undefined name next to a defined one
C9_Witness ==
    /\ op = "extract"
    /\ PORT \in Range(AllMatches(commands, 1))
    /\ \E n \in Range(AllMatches(commands, 1)) : n # PORT /\ n \notin DOMAIN all_macros
    /\ used_macros.items # <<>>

\* the keys of the returned dict, in its order
KeyOrder == [i \in DOMAIN used_macros.items |-> used_macros.items[i][1]]

\* C10: the entries of the returned dict are in the order in which the
\* commands first name their macros, each macro once.
C10_FirstDiscoveryOrder ==
    op = "extract" =>
        KeyOrder = SelectSeq(DiscoveryFrom(AllMatches(commands, 1), 1),
                             LAMBDA n : n \in DOMAIN all_macros)

\* the defined macros on a reference chain that starts at a name of a command
ReachableDefined == UNION {Reach(all_macros, m) : m \in ReferencedDefined}

\* C11 as stated: every defined macro reachable from the commands through
\* nested references is a key of the returned dict.
C11_TransitiveClosure ==
    op = "extract" => ReachableDefined \subseteq Keys(used_macros.items)

\* C11 as the code has it: the keys of the returned dict are exactly the
\* defined macros that a command names itself, each once, with the value
\* that expand_macro returns for it (its raw expression on a cycle); a macro
\* that is reached through nested references only is no key.
C11_DirectReferencesOnly ==
    op = "extract" =>
        /\ ~used_macros.raised
        /\ Keys(used_macros.items) = ReferencedDefined
        /\ Len(used_macros.items) = Cardinality(ReferencedDefined)
        /\ \A m \in ReachableDefined \ ReferencedDefined :
              m \notin Keys(used_macros.items)
        /\ \A i \in DOMAIN used_macros.items :
              LET out == expand_macro(used_macros.items[i][1], all_macros, {})
              IN  used_macros.items[i][2] =
                      IF out.err THEN all_macros[used_macros.items[i][1]]
                      ELSE out.val

\* a command names a macro that references a defined macro no command names;
\* the result holds the former, with the latter resolved inside its value
C11_Witness ==
    /\ op = "extract"
    /\ \E m \in ReferencedDefined :
          /\ ~CycleReachable(all_macros, m)
          /\ \E n \in Refs(all_macros, m) :
                /\ n \notin ReferencedDefined
                /\ n \notin Keys(used_macros.items)
                /\ ValuesOf(m) = {Expansion(all_macros, m)}
                /\ ~Contains(Expansion(all_macros, m), Ref(n))

\* the defined macros that the generated commands reference
ConfigReferencedDefined ==
    Range(AllMatches(all_commands_of(found_models), 1)) \cap DOMAIN all_macros

\* the mappings that extract_used_macros_from_commands may return for the
\* generated commands
ConfigExtracted ==
    {extract_used_macros_from_commands(order, all_macros).items :
        order \in iteration_orders(all_commands_of(found_models))}

\* C12: the returned document has the key macros exactly when a generated
\* command references a defined macro; the key then holds the mapping that
\* extract_used_macros_from_commands returns, which is not empty.
C12_MacrosKeyIffUsed ==
    (op = "config" /\ ~output_config.raised) =>
        /\ "macros" \in DOMAIN output_config.doc <=> ConfigReferencedDefined # {}
        /\ "macros" \in DOMAIN output_config.doc =>
              /\ output_config.doc["macros"] \in ConfigExtracted
              /\ output_config.doc["macros"] # <<>>
              /\ Keys(output_config.doc["macros"]) = ConfigReferencedDefined

\* a document with the key macros although a command references undefined
\* names next to the defined ones
C12_Witness ==
    /\ op = "config"
    /\ ~output_config.raised
    /\ "macros" \in DOMAIN output_config.doc
    /\ Len(output_config.doc["macros"]) = 2
    /\ Binary \notin DOMAIN all_macros

\* a document without the key macros over a table that defines macros, none
\* of which a command references
C12_WitnessAbsent ==
    /\ op = "config"
    /\ ~output_config.raised
    /\ "macros" \notin DOMAIN output_config.doc
    /\ DOMAIN all_macros # {}

(***************************************************************************)
(* A ValidationResult created valid, and any calls of add_error and        *)
(* add_warning on it.                                                      *)
(***************************************************************************)
Messages == {"error1", "warning1"}

InitResult ==
    /\ op = "init"
    /\ result = [raised |-> FALSE, report |-> ValidationResult(TRUE)]
    /\ calls = <<>>
    /\ source = NoSource
    /\ all_macros = <<>>
    /\ found_models = <<>>
    /\ output_config = NoDocument
    /\ commands = <<>>
    /\ used_macros = NoMapping
    /\ macro_name = <<>>
    /\ expanded = NoOutcome
    /\ expanded_again = NoOutcome
    /\ last_visited = {}
    /\ dedup_input = <<>>
    /\ deduped = <<>>
    /\ deduped_again = <<>>

\* result.add_error(error)
AddError ==
    /\ Len(calls) < MaxCalls
    /\ \E error \in Messages :
          /\ result' = [result EXCEPT !.report = add_error(@, error)]
          /\ calls' = Append(calls, <<"add_error", error>>)
    /\ op' = "add_error"
    /\ UNCHANGED <<source, all_macros, dedup_vars, expand_vars, extract_vars, config_vars>>

\* result.add_warning(warning)
AddWarning ==
    /\ Len(calls) < MaxCalls
    /\ \E warning \in Messages :
          /\ result' = [result EXCEPT !.report = add_warning(@, warning)]
          /\ calls' = Append(calls, <<"add_warning", warning>>)
    /\ op' = "add_warning"
    /\ UNCHANGED <<source, all_macros, dedup_vars, expand_vars, extract_vars, config_vars>>

NextResult == AddError \/ AddWarning

SpecResult == InitResult /\ [][NextResult]_vars

\* the arguments of the calls of one method, in call order
RECURSIVE ArgumentsOf(_, _, _)
ArgumentsOf(method, cs, k) ==
    IF k > Len(cs) THEN <<>>
    ELSE (IF cs[k][1] = method THEN <<cs[k][2]>> ELSE <<>>) \o ArgumentsOf(method, cs, k + 1)

IsPrefix(s, t) == Len(s) <= Len(t) /\ \A i \in DOMAIN s : s[i] = t[i]

\* after any calls: the flag is false exactly when add_error was called;
\* errors and warnings hold the appended strings in call order
ResultReflectsCalls ==
    /\ result.report.is_valid <=> ArgumentsOf("add_error", calls, 1) = <<>>
    /\ result.report.errors = ArgumentsOf("add_error", calls, 1)
    /\ result.report.warnings = ArgumentsOf("add_warning", calls, 1)

\* a call: add_error makes the flag false, add_warning leaves it, the flag
\* never returns to true, and both lists are extended at their end only
ResultStep ==
    /\ op' = "add_error" => ~result'.report.is_valid
    /\ op' = "add_warning" => result'.report.is_valid = result.report.is_valid
    /\ ~result.report.is_valid => ~result'.report.is_valid
    /\ IsPrefix(result.report.errors, result'.report.errors)
    /\ IsPrefix(result.report.warnings, result'.report.warnings)

\* C13: a ValidationResult created valid is invalid exactly when add_error
\* has been called; it becomes invalid at the first add_error and stays so;
\* add_warning never changes the flag; errors and warnings hold exactly the
\* appended strings in call order, and nothing removes or reorders them.
C13_AppendOnlyResult == [](ResultReflectsCalls) /\ [][ResultStep]_vars

\* warnings were added to a valid result, then an error, then a warning again
C13_Witness ==
    /\ Len(calls) = 4
    /\ calls[1][1] = "add_warning"
    /\ calls[2][1] = "add_error"
    /\ calls[4][1] = "add_warning"
    /\ ~result.report.is_valid
    /\ Len(result.report.errors) = 2
    /\ result.report.errors[1] # result.report.errors[2]

(***************************************************************************)
(* The schema of a configuration document                                  *)
(* (src/llama_swap_config_autogen/validation_models.py).                   *)
(*                                                                         *)
(* A parsed document is a record: models, groups and macros are sequences  *)
(* in document order (a model and a group carry their id, a macro is a     *)
(* <<name, value>> pair), has_models tells whether the key models is       *)
(* there, preload is hooks.on_startup.preload, and str_keys tells whether  *)
(* every top-level key is a str.  A field that a document leaves out has   *)
(* its default.  The fields that are not named here are left out by every  *)
(* document.                                                               *)
(*                                                                         *)
(* An error is the template of its message (kind), the location that       *)
(* pydantic reports for it (field, empty for the whole document) and the   *)
(* values that the message names (about).                                  *)
(***************************************************************************)
Error(field, kind, about) == [field |-> field, kind |-> kind, about |-> about]

NameChars ==
    { "a", "b", "c", "d", "e", "f", "g", "h", "i", "j", "k", "l", "m",
      "n", "o", "p", "q", "r", "s", "t", "u", "v", "w", "x", "y", "z",
      "A", "B", "C", "D", "E", "F", "G", "H", "I", "J", "K", "L", "M",
      "N", "O", "P", "Q", "R", "S", "T", "U", "V", "W", "X", "Y", "Z",
      "0", "1", "2", "3", "4", "5", "6", "7", "8", "9", "_", "-" }

\* the end of the run of [a-zA-Z0-9_-] that starts at p: the first position
\* from p on that holds another character
RECURSIVE NameRunEnd(_, _)
NameRunEnd(s, p) ==
    IF p > Len(s) \/ s[p] \notin NameChars THEN p ELSE NameRunEnd(s, p + 1)

\* re.compile(r"\$\{([a-zA-Z0-9_-]+)\}").findall(s) from position p on
RECURSIVE FindNamesFrom(_, _)
FindNamesFrom(s, p) ==
    IF p + 1 > Len(s) THEN <<>>
    ELSE IF s[p] = "$" /\ s[p + 1] = "{"
         THEN LET e == NameRunEnd(s, p + 2)
              IN  IF e > p + 2 /\ e <= Len(s) /\ s[e] = "}"
                  THEN <<SubSeq(s, p + 2, e - 1)>> \o FindNamesFrom(s, e + 1)
                  ELSE FindNamesFrom(s, p + 1)
         ELSE FindNamesFrom(s, p + 1)

FindNames(s) == FindNamesFrom(s, 1)

\* re.compile(r"^[a-zA-Z0-9_-]+$").match(name): "$" also matches in front
\* of a newline that ends the string
MatchesNamePattern(name) ==
    LET body == IF Len(name) >= 1 /\ name[Len(name)] = "\n"
                THEN SubSeq(name, 1, Len(name) - 1) ELSE name
    IN  /\ Len(name) >= 1
        /\ name[1] \in NameChars
        /\ \/ \A i \in DOMAIN name : name[i] \in NameChars
           \/ \A i \in DOMAIN body : body[i] \in NameChars

\* sub in s
Search(s, sub) == \E p \in 1..(Len(s) + 1) : StartsAt(s, sub, p)

\* v.strip() is empty
IsBlank(v) == \A i \in DOMAIN v : IsSpace(v[i])

MODEL_ID == <<"M", "O", "D", "E", "L", "_", "I", "D">>
PID == <<"P", "I", "D">>
reserved_names == {PORT, MODEL_ID, PID}

Debug == <<"d", "e", "b", "u", "g">>
Info == <<"i", "n", "f", "o">>
Warn == <<"w", "a", "r", "n">>
ErrorLevel == <<"e", "r", "r", "o", "r">>
valid_levels == {Debug, Info, Warn, ErrorLevel}

Http == <<"h", "t", "t", "p", ":", "/", "/">>
Https == <<"h", "t", "t", "p", "s", ":", "/", "/">>
\* the default of ModelConfig.proxy
DefaultProxy == Http \o <<"l", "o", "c", "a", "l", "h", "o", "s", "t", ":">> \o Ref(PORT)
\* the default of ModelConfig.checkEndpoint
DefaultCheckEndpoint == <<"/", "h", "e", "a", "l", "t", "h">>

\* the value of a str field: its default when the document leaves it out
FieldOr(v, default) == IF v = Absent THEN default ELSE v

\* ModelConfig.validate_cmd, after the check that the required field is there
validate_cmd(id, v) ==
    IF v = Absent THEN <<Error(<<"models", id, "cmd">>, "Field required", <<>>)>>
    ELSE IF v = <<>> \/ IsBlank(v)
         THEN <<Error(<<"models", id, "cmd">>, "cmd cannot be empty", <<>>)>>
         ELSE <<>>

\* ModelConfig.validate_env: the loop from the k-th entry on; the first
\* entry without "=" raises
RECURSIVE validate_env(_, _, _)
validate_env(id, v, k) ==
    IF k > Len(v) THEN <<>>
    ELSE IF ~Search(v[k], <<"=">>)
         THEN <<Error(<<"models", id, "env">>,
                      "Environment variable must be in format KEY=value, got", <<v[k]>>)>>
         ELSE validate_env(id, v, k + 1)

\* ModelConfig.validate_proxy
validate_proxy(id, v) ==
    IF v # Absent /\ v # <<>> /\ ~(StartsAt(v, Http, 1) \/ StartsAt(v, Https, 1))
    THEN <<Error(<<"models", id, "proxy">>, "proxy must start with http:// or https://", <<>>)>>
    ELSE <<>>

\* the errors of one ModelConfig, field by field in the order of the class
ModelConfigErrors(model) ==
    validate_cmd(model.id, model.cmd)
    \o validate_proxy(model.id, model.proxy)
    \o validate_env(model.id, model.env, 1)

\* GroupConfig.validate_members
validate_members(id, v) ==
    IF v = <<>>
    THEN <<Error(<<"groups", id, "members">>, "Group must have at least one member", <<>>)>>
    ELSE IF Len(v) # Cardinality(Range(v))
         THEN <<Error(<<"groups", id, "members">>, "Group members must be unique", <<>>)>>
         ELSE <<>>

\* the errors of the entries of a dict field, one after the other
RECURSIVE EntryErrors(_, _)
EntryErrors(errors_of_entry, k) ==
    IF k > Len(errors_of_entry) THEN <<>>
    ELSE errors_of_entry[k] \o EntryErrors(errors_of_entry, k + 1)

\* the field models: required; its entries; LlamaSwapConfig.validate_models
\* when the entries are in order
models_errors(data) ==
    IF ~data.has_models THEN <<Error(<<"models">>, "Field required", <<>>)>>
    ELSE LET nested == EntryErrors([i \in DOMAIN data.models |-> ModelConfigErrors(data.models[i])], 1)
         IN  IF nested # <<>> THEN nested
             ELSE IF data.models = <<>>
                  THEN <<Error(<<"models">>, "At least one model must be defined", <<>>)>>
                  ELSE <<>>

groups_errors(data) ==
    EntryErrors([i \in DOMAIN data.groups |->
                    validate_members(data.groups[i].id, data.groups[i].members)], 1)

\* LlamaSwapConfig.validate_log_level
validate_log_level(v) ==
    IF v # Absent /\ v \notin valid_levels
    THEN <<Error(<<"logLevel">>, "logLevel must be one of, got", <<v>>)>>
    ELSE <<>>

\* LlamaSwapConfig.validate_macros: the loop from the k-th macro on; the
\* first violation raises
RECURSIVE validate_macros(_, _)
validate_macros(v, k) ==
    IF k > Len(v) THEN <<>>
    ELSE LET name == v[k][1]
             value == v[k][2]
         IN  IF Len(name) >= 64
             THEN <<Error(<<"macros">>, "Macro name exceeds maximum length of 63 characters", <<name>>)>>
             ELSE IF ~MatchesNamePattern(name)
             THEN <<Error(<<"macros">>, "Macro name contains invalid characters", <<name>>)>>
             ELSE IF name \in reserved_names
             THEN <<Error(<<"macros">>, "Macro name is reserved", <<name>>)>>
             ELSE IF Len(value) >= 1024
             THEN <<Error(<<"macros">>, "Macro value exceeds maximum length of 1024 characters", <<name>>)>>
             ELSE validate_macros(v, k + 1)

\* healthCheckTimeout: ge=15
healthCheckTimeout_errors(v) ==
    IF v < 15
    THEN <<Error(<<"healthCheckTimeout">>, "Input should be greater than or equal to 15", <<>>)>>
    ELSE <<>>

\* startPort: gt=0, lt=65536
startPort_errors(v) ==
    IF v <= 0 THEN <<Error(<<"startPort">>, "Input should be greater than 0", <<>>)>>
    ELSE IF v >= 65536 THEN <<Error(<<"startPort">>, "Input should be less than 65536", <<>>)>>
    ELSE <<>>

\* the errors that pydantic collects from the fields of LlamaSwapConfig:
\* every field is validated, in the order of the class, whether or not
\* another field failed
field_errors(data) ==
    healthCheckTimeout_errors(data.healthCheckTimeout)
    \o validate_log_level(data.logLevel)
    \o models_errors(data)
    \o groups_errors(data)
    \o validate_macros(data.macros, 1)
    \o startPort_errors(data.startPort)

\* the smallest element of a non-empty set of integers
Least(S) == CHOOSE x \in S : \A y \in S : x <= y

ModelIds(data) == {data.models[i].id : i \in DOMAIN data.models}
MacroNames(macros) == {macros[i][1] : i \in DOMAIN macros}
MacroValue(macros, name) == macros[Least({i \in DOMAIN macros : macros[i][1] = name})][2]

\* the <<alias, model id>> pairs in the order in which the loops over the
\* models and their aliases meet them
RECURSIVE AliasClaims(_, _)
AliasClaims(models, k) ==
    IF k > Len(models) THEN <<>>
    ELSE [i \in DOMAIN models[k].aliases |-> <<models[k].aliases[i], models[k].id>>]
         \o AliasClaims(models, k + 1)

\* the alias loops: the first alias that is in aliases_to_model already
\* raises, with the model recorded for it and the model at hand
check_aliases(data) ==
    LET claims == AliasClaims(data.models, 1)
        again == {k \in DOMAIN claims : \E j \in 1..(k - 1) : claims[j][1] = claims[k][1]}
    IN  IF again = {} THEN <<>>
        ELSE LET k == Least(again)
                 j == Least({i \in 1..(k - 1) : claims[i][1] = claims[k][1]})
             IN  <<Error(<<>>, "Duplicate alias found in models",
                         <<claims[k][1], claims[j][2], claims[k][2]>>)>>

\* aliases_to_model after the loops
aliases_to_model(data) ==
    LET claims == AliasClaims(data.models, 1) IN {claims[i][1] : i \in DOMAIN claims}

\* the <<group id, member>> pairs in the order of the loops over the groups
RECURSIVE Memberships(_, _)
Memberships(groups, k) ==
    IF k > Len(groups) THEN <<>>
    ELSE [i \in DOMAIN groups[k].members |-> <<groups[k].id, groups[k].members[i]>>]
         \o Memberships(groups, k + 1)

\* the text of undefined_models: group and member of every entry
RECURSIVE UndefinedModels(_, _, _)
UndefinedModels(memberships, k, model_ids) ==
    IF k > Len(memberships) THEN <<>>
    ELSE (IF memberships[k][2] \notin model_ids THEN memberships[k] ELSE <<>>)
         \o UndefinedModels(memberships, k + 1, model_ids)

\* the group loops: a member that is in all_members already raises at once;
\* the undefined members are appended to a list that raises after the loops
check_groups(data) ==
    LET ms == Memberships(data.groups, 1)
        again == {k \in DOMAIN ms : \E j \in 1..(k - 1) : ms[j][2] = ms[k][2]}
        undefined_models == UndefinedModels(ms, 1, ModelIds(data))
    IN  IF again # {}
        THEN <<Error(<<>>, "Model is referenced in multiple groups", <<ms[Least(again)][2]>>)>>
        ELSE IF undefined_models # <<>>
             THEN <<Error(<<>>, "Undefined model references found", undefined_models)>>
             ELSE <<>>

\* the preload loop: the first entry that is neither a model id nor an alias
\* raises
check_preload(data) ==
    LET unknown == {k \in DOMAIN data.preload :
                       /\ data.preload[k] \notin ModelIds(data)
                       /\ data.preload[k] \notin aliases_to_model(data)}
    IN  IF unknown = {} THEN <<>>
        ELSE <<Error(<<>>, "Hooks preload references unknown model",
                     <<data.preload[Least(unknown)]>>)>>

\* the four checked fields of a model, with the values the config holds
CheckedFields(model) ==
    << <<"cmd", model.cmd>>,
       <<"cmdStop", FieldOr(model.cmdStop, <<>>)>>,
       <<"proxy", FieldOr(model.proxy, DefaultProxy)>>,
       <<"checkEndpoint", FieldOr(model.checkEndpoint, DefaultCheckEndpoint)>> >>

\* one field of one model: a nested token raises, then the first name that
\* is no runtime macro and no key of macros
check_field(model_id, field_name, field_value, macros) ==
    IF Search(field_value, <<"$", "{", "$", "{">>)
    THEN <<Error(<<>>, "Nested macro detected in model field", <<model_id, field_name, field_value>>)>>
    ELSE LET matches == FindNames(field_value)
             unknown == {k \in DOMAIN matches :
                            /\ matches[k] \notin reserved_names
                            /\ matches[k] \notin MacroNames(macros)}
         IN  IF unknown = {} THEN <<>>
             ELSE <<Error(<<>>, "Unknown macro in model field",
                          <<matches[Least(unknown)], model_id, field_name>>)>>

\* the loops over the models and their fields, from field f of model k on
RECURSIVE check_macro_usage_from(_, _, _)
check_macro_usage_from(data, k, f) ==
    IF k > Len(data.models) THEN <<>>
    ELSE IF f > 4 THEN check_macro_usage_from(data, k + 1, 1)
    ELSE LET field == CheckedFields(data.models[k])[f]
             raised == check_field(data.models[k].id, <<field[1]>>, field[2], data.macros)
         IN  IF raised # <<>> THEN raised
             ELSE check_macro_usage_from(data, k, f + 1)

\* if self.macros: the usage check runs only for a document with macros
check_macro_usage(data) ==
    IF data.macros # <<>> THEN check_macro_usage_from(data, 1, 1) ELSE <<>>

\* LlamaSwapConfig.validate_config_consistency: the error that it raises, if
\* any; each check runs only when the ones before it raised nothing
validate_config_consistency(data) ==
    IF check_aliases(data) # <<>> THEN check_aliases(data)
    ELSE IF data.groups # <<>> /\ check_groups(data) # <<>> THEN check_groups(data)
    ELSE IF check_preload(data) # <<>> THEN check_preload(data)
    ELSE check_macro_usage(data)

(***************************************************************************)
(* Validation (src/llama_swap_config_autogen/validator.py).                *)
(*                                                                         *)
(* What comes out of a call is the ValidationResult that it returns, or an *)
(* exception that leaves it.                                               *)
(***************************************************************************)
Report(r) == [raised |-> FALSE, report |-> r]
Raises == [raised |-> TRUE, report |-> ValidationResult(FALSE)]

\* a constructor that runs the consistency validator whatever the fields gave
all_validators(data) ==
    IF ~data.str_keys THEN [exc |-> "TypeError", errors |-> <<>>]
    ELSE IF field_errors(data) \o validate_config_consistency(data) # <<>>
         THEN [exc |-> "ValidationError",
               errors |-> field_errors(data) \o validate_config_consistency(data)]
         ELSE [exc |-> "none", errors |-> <<>>]

\* LlamaSwapConfig(**data): a TypeError when a key is no str, the
\* ValidationError with the errors of the fields, the ValidationError with
\* the error of the consistency validator, which runs when no field failed,
\* or the config
LlamaSwapConfig(data) ==
    IF ~data.str_keys THEN [exc |-> "TypeError", errors |-> <<>>]
    ELSE IF field_errors(data) # <<>>
         THEN [exc |-> "ValidationError", errors |-> field_errors(data)]
         ELSE IF validate_config_consistency(data) # <<>>
              THEN [exc |-> "ValidationError", errors |-> validate_config_consistency(data)]
              ELSE [exc |-> "none", errors |-> <<>>]

\* result.add_error for each of errors, from the k-th on
RECURSIVE add_errors(_, _, _)
add_errors(r, errors, k) ==
    IF k > Len(errors) THEN r ELSE add_errors(add_error(r, errors[k]), errors, k + 1)

\* a proxy without the default of the field
declared_proxy(model) == FieldOr(model.proxy, <<>>)

\* model_config.proxy: the proxy of the document, or the default of the field
effective_proxy(model) == FieldOr(model.proxy, DefaultProxy)

\* _validate_port_consistency: the loop from the k-th model on
RECURSIVE validate_port_consistency(_, _, _)
validate_port_consistency(data, r, k) ==
    IF k > Len(data.models) THEN r
    ELSE LET cmd_uses_port == Search(data.models[k].cmd, Ref(PORT))
             proxy == effective_proxy(data.models[k])
             proxy_uses_port == proxy # <<>> /\ Search(proxy, Ref(PORT))
         IN  validate_port_consistency(data,
                 IF proxy_uses_port /\ ~cmd_uses_port
                 THEN add_error(r, Error(<<>>, "proxy uses ${PORT} but cmd does not",
                                         <<data.models[k].id>>))
                 ELSE r,
                 k + 1)

\* a check that sees only a macro that references itself
references_itself(macros, name, visited) ==
    /\ name \in MacroNames(macros)
    /\ name \in Range(FindNames(MacroValue(macros, name)))

\* find_dependencies of _validate_macro_circular_references
RECURSIVE find_dependencies(_, _, _)
find_dependencies(macros, name, visited) ==
    IF name \in visited THEN TRUE
    ELSE IF name \notin MacroNames(macros) THEN FALSE
    ELSE \E dep \in Range(FindNames(MacroValue(macros, name))) :
             find_dependencies(macros, dep, visited \cup {name})

\* _validate_macro_circular_references: the loop from the k-th macro on
RECURSIVE validate_macro_circular_references(_, _, _)
validate_macro_circular_references(data, r, k) ==
    IF k > Len(data.macros) THEN r
    ELSE validate_macro_circular_references(data,
             IF find_dependencies(data.macros, data.macros[k][1], {})
             THEN add_error(r, Error(<<>>, "Circular reference detected in macro",
                                     <<data.macros[k][1]>>))
             ELSE r,
             k + 1)

\* a handler that lets the exception through
unexpected_reraised(r, message) == Raises

\* except Exception: the exception becomes an error of the result
unexpected_reported(r, message) == Report(add_error(r, Error(<<>>, message, <<>>)))

validate_with_pydantic(data) ==
    LET result0 == ValidationResult(TRUE)
        config == LlamaSwapConfig(data)
    IN  IF config.exc = "none"
        THEN Report(validate_macro_circular_references(data,
                        validate_port_consistency(data, result0, 1), 1))
        ELSE IF config.exc = "ValidationError"
             THEN Report(add_errors([result0 EXCEPT !.is_valid = FALSE], config.errors, 1))
             ELSE unexpected_reported(result0, "Unexpected validation error")

\* a structural failure that is reported and validated all the same
structural_error_continues(message, data) ==
    LET rest == validate_with_pydantic(data)
    IN  Report(add_errors(add_error(ValidationResult(FALSE), Error(<<>>, message, <<>>)),
                          rest.report.errors, 1))

\* result = ValidationResult(False); result.add_error(...); return result
structural_error(message, data) ==
    Report(add_error(ValidationResult(FALSE), Error(<<>>, message, <<>>)))

\* validate_yaml_string on a text that yaml.safe_load fails on, loads as
\* None, loads as something that is no dict, or loads as the dict data
validate_yaml_string(src) ==
    IF src.kind = "syntax_error" THEN structural_error("YAML syntax error", src.data)
    ELSE IF src.kind = "null"
         THEN structural_error("YAML content is empty or contains only null values", src.data)
    ELSE IF src.kind = "not_mapping"
         THEN structural_error("YAML root must be a dictionary/object", src.data)
    ELSE LET inner == validate_with_pydantic(src.data)
         IN  IF inner.raised
             THEN structural_error("Unexpected error", src.data)
             ELSE inner

\* validate_yaml_syntax: the errors that it returns; the data that it
\* returns is the parsed dict when there is no error
validate_yaml_syntax(src) ==
    CASE src.kind = "missing_file" -> <<"File not found">>
      [] src.kind = "read_error" -> <<"Unexpected error reading file">>
      [] src.kind = "syntax_error" -> <<"YAML syntax error">>
      [] src.kind = "null" -> <<"YAML file is empty or contains only null values">>
      [] src.kind = "not_mapping" -> <<"YAML root must be a dictionary/object">>
      [] OTHER -> <<>>

validate_yaml_file(src) ==
    LET syntax_errors == validate_yaml_syntax(src)
    IN  IF syntax_errors # <<>>
        THEN Report(add_errors(ValidationResult(FALSE),
                               [i \in DOMAIN syntax_errors |-> Error(<<>>, syntax_errors[i], <<>>)],
                               1))
        ELSE validate_with_pydantic(src.data)

(***************************************************************************)
(* Inputs of the validation: a text or file that does not load as a        *)
(* mapping, or a mapping.  The mappings are those of FieldDocuments, which *)
(* vary the fields with a constraint, and of ConsistencyDocuments, which   *)
(* keep the field constraints and vary what the consistency checks and the *)
(* checks of validator.py look at.                                         *)
(***************************************************************************)
M1 == <<"m", "1">>
M2 == <<"m", "2">>
G1 == <<"g", "1">>
G2 == <<"g", "2">>
Y == <<"y">>
Z == <<"z">>
Q == <<"q">>
Srv == <<"s">>
SrvPort == Srv \o <<" ">> \o Ref(PORT)
Host == Http \o <<"h">>
EnvOk == <<"K", "=", "v">>
LongName == [i \in 1..64 |-> "n"]
LongValue == [i \in 1..1024 |-> "v"]

Model(id, cmd, aliases) ==
    [id |-> id, cmd |-> cmd, cmdStop |-> Absent, proxy |-> Absent,
     checkEndpoint |-> Absent, aliases |-> aliases, env |-> <<>>]

Group(id, members) == [id |-> id, members |-> members]

Mapping0(models, groups, macros, preload) ==
    [str_keys |-> TRUE, healthCheckTimeout |-> 120, logLevel |-> Info, startPort |-> 5800,
     has_models |-> TRUE, models |-> models, groups |-> groups, macros |-> macros,
     preload |-> preload]

\* the mapping {}
EmptyMapping == [Mapping0(<<>>, <<>>, <<>>, <<>>) EXCEPT !.has_models = FALSE,
                                                        !.logLevel = Absent]

FieldMacros ==
    { <<>>,
      << <<A, V>> >>,
      << <<<<"a", " ", "b">>, V>>, <<<<"c", ".", "d">>, V>> >>,
      << <<PORT, V>>, <<A, V>> >>,
      << <<A, V>>, <<LongName, V>> >>,
      << <<A, LongValue>>, <<PID, V>> >>,
      << <<<<"a", " ", "b">>, V>>, <<PORT, V>> >>,
      << <<<<"a", "\n">>, V>> >> }

FieldEnvs ==
    { <<>>, <<EnvOk>>, <<EnvOk, <<"K">>, <<"J">> >>,
      << <<"=", "v">> >>,
      << <<"A", "=", "B", "=", "C">> >> }

FieldGroups == { <<>>, <<Group(G1, <<>>)>>, <<Group(G1, <<M1, M1>>)>> }

FieldDocuments ==
    { [Mapping0(<< [Model(M1, cmd, aliases) EXCEPT !.env = env, !.proxy = proxy],
                   Model(M2, SrvPort, aliases) >>,
                groups, macros, <<>>)
         EXCEPT !.logLevel = level, !.startPort = port] :
        cmd \in {SrvPort, <<" ">>}, aliases \in {<<>>, <<X>>},
        env \in FieldEnvs, proxy \in {Absent, <<"f", "t", "p", ":", "/", "/", "h">>},
        groups \in FieldGroups, macros \in FieldMacros,
        level \in {Absent, <<"l", "o", "u", "d">>}, port \in {5800, 70000} }
    \cup { EmptyMapping,
           Mapping0(<<>>, <<>>, <<>>, <<>>),
           [Mapping0(<<Model(M1, SrvPort, <<>>)>>, <<>>, <<>>, <<>>) EXCEPT !.str_keys = FALSE],
           [Mapping0(<<Model(M1, Absent, <<>>)>>, <<>>, <<>>, <<>>)
               EXCEPT !.healthCheckTimeout = 10, !.startPort = 0] }

ConsistencyCmds ==
    { SrvPort, Srv,
      SrvPort \o <<" ">> \o Ref(U),
      SrvPort \o <<" ">> \o Ref(A),
      SrvPort \o <<" ", "$", "{">> \o Ref(A) \o <<"}">> }

\* cmdStop, proxy and checkEndpoint of the first model
ConsistencyFields ==
    { <<Absent, Absent, Absent>>,
      <<Absent, Host, Absent>>,
      <<Ref(U), Absent, Absent>>,
      <<Absent, Absent, <<"/">> \o Ref(U)>>,
      <<Absent, Host \o Ref(U), Absent>> }

ConsistencyAliases == { <<>>, <<X>>, <<X, X>> }

\* the models after the first: none, one that has the alias x, or one with
\* another alias whose cmd names an unknown macro and no port
ConsistencyOthers ==
    { <<>>,
      <<Model(M2, SrvPort, <<X>>)>>,
      <<Model(M2, Srv \o <<" ">> \o Ref(U), <<Y>>)>> }

ConsistencyGroups ==
    { <<>>,
      <<Group(G1, <<M1>>)>>,
      <<Group(G1, <<M1, Z>>)>>,
      <<Group(G1, <<Z, M1>>), Group(G2, <<M1, Q>>)>>,
      <<Group(G1, <<Z>>), Group(G2, <<Q>>)>> }

ConsistencyMacros ==
    { <<>>,
      << <<A, V>> >>,
      << <<A, Ref(B)>>, <<B, Ref(A)>> >>,
      << <<B, V>> >> }

ConsistencyPreloads == { <<>>, <<M1, X>>, <<Z>> }

ConsistencyDocuments ==
    { Mapping0(<< [Model(M1, cmd, aliases) EXCEPT !.cmdStop = fields[1],
                                                 !.proxy = fields[2],
                                                 !.checkEndpoint = fields[3]] >> \o others,
               groups, macros, preload) :
        cmd \in ConsistencyCmds, fields \in ConsistencyFields,
        aliases \in ConsistencyAliases, others \in ConsistencyOthers,
        groups \in ConsistencyGroups, macros \in ConsistencyMacros,
        preload \in ConsistencyPreloads }

\* macros tables for the static cycle check: a macro that references
\* itself, a macro that leads to a cycle it is not on, a diamond, a token
\* that starts inside an unclosed one, a cycle beside an acyclic chain, a
\* reference to an undeclared name, and a cycle of three
CycleTables ==
    { << <<A, Ref(A)>> >>,
      << <<C, Ref(A)>>, <<A, Ref(B)>>, <<B, Ref(A)>>, <<U, V>> >>,
      << <<A, Ref(B) \o Ref(C)>>, <<B, Ref(U)>>, <<C, Ref(U)>>, <<U, V>> >>,
      << <<A, <<"$", "{", "x">> \o Ref(A)>> >>,
      << <<A, Ref(B)>>, <<B, V>>, <<C, Ref(C)>> >>,
      << <<A, Ref(U)>> >>,
      << <<A, Ref(B)>>, <<B, Ref(C)>>, <<C, Ref(A)>> >> }

\* documents of one model that references a macro or none, with or without
\* a port in its cmd
CircularDocuments ==
    { Mapping0(<<Model(M1, cmd, <<>>)>>, <<>>, macros, <<>>) :
        cmd \in {SrvPort, Srv, SrvPort \o <<" ">> \o Ref(C)},
        macros \in CycleTables }

Mappings == FieldDocuments \cup ConsistencyDocuments \cup CircularDocuments

\* what a text or a file may be
Sources ==
    { [kind |-> k, data |-> EmptyMapping] :
        k \in {"syntax_error", "null", "not_mapping", "missing_file", "read_error"} }
    \cup { [kind |-> "mapping", data |-> d] : d \in Mappings }

InitValidate ==
    /\ op = "init"
    /\ source \in Sources
    /\ result = NoResult
    /\ calls = <<>>
    /\ all_macros = <<>>
    /\ found_models = <<>>
    /\ output_config = NoDocument
    /\ commands = <<>>
    /\ used_macros = NoMapping
    /\ macro_name = <<>>
    /\ expanded = NoOutcome
    /\ expanded_again = NoOutcome
    /\ last_visited = {}
    /\ dedup_input = <<>>
    /\ deduped = <<>>
    /\ deduped_again = <<>>

\* validate_yaml_string(yaml_content), on a text
ValidateYamlString ==
    /\ op = "init"
    /\ source.kind \in {"syntax_error", "null", "not_mapping", "mapping"}
    /\ result' = validate_yaml_string(source)
    /\ op' = "validate_yaml_string"
    /\ UNCHANGED <<source, calls, all_macros, dedup_vars, expand_vars, extract_vars,
                   config_vars>>

\* validate_yaml_file(yaml_path), on a path
ValidateYamlFile ==
    /\ op = "init"
    /\ result' = validate_yaml_file(source)
    /\ op' = "validate_yaml_file"
    /\ UNCHANGED <<source, calls, all_macros, dedup_vars, expand_vars, extract_vars,
                   config_vars>>

\* validate_with_pydantic(data), on a parsed mapping
ValidateWithPydantic ==
    /\ op = "init"
    /\ source.kind = "mapping"
    /\ result' = validate_with_pydantic(source.data)
    /\ op' = "validate_with_pydantic"
    /\ UNCHANGED <<source, calls, all_macros, dedup_vars, expand_vars, extract_vars,
                   config_vars>>

NextValidate == ValidateYamlString \/ ValidateYamlFile \/ ValidateWithPydantic

SpecValidate == InitValidate /\ [][NextValidate]_vars

Validated == op \in {"validate_yaml_string", "validate_yaml_file", "validate_with_pydantic"}

(***************************************************************************)
(* Vocabulary of the validation properties, defined from the document.     *)
(***************************************************************************)
Data == source.data
Errors == result.report.errors
ErrorsOfKind(kind) == {i \in DOMAIN Errors : Errors[i].kind = kind}

\* a mapping with str keys: LlamaSwapConfig validates its fields
Parsed == source.kind = "mapping" /\ Data.str_keys

\* a model whose proxy uses ${PORT} while its cmd does not
PortInconsistent(model) ==
    /\ Search(FieldOr(model.proxy, DefaultProxy), Ref(PORT))
    /\ ~Search(model.cmd, Ref(PORT))

\* the macros of the document from which a chain of references comes back
\* to a macro it has passed
CircularMacros(data) ==
    {data.macros[k][1] : k \in {i \in DOMAIN data.macros :
                                   find_dependencies(data.macros, data.macros[i][1], {})}}

StructuralMessages ==
    { "YAML syntax error", "File not found", "Unexpected error reading file",
      "YAML content is empty or contains only null values",
      "YAML file is empty or contains only null values",
      "YAML root must be a dictionary/object" }

\* some check of the validation fails on the source, or an exception occurs
SomethingFails ==
    \/ source.kind # "mapping"
    \/ ~Data.str_keys
    \/ field_errors(Data) # <<>>
    \/ validate_config_consistency(Data) # <<>>
    \/ \E i \in DOMAIN Data.models : PortInconsistent(Data.models[i])
    \/ CircularMacros(Data) # {}

\* C14: no exception leaves validate_yaml_string, validate_yaml_file or
\* validate_with_pydantic: each returns a ValidationResult; when a check
\* fails or an exception occurs inside, the result is invalid and has an
\* error.
C14_NeverRaises ==
    Validated =>
        /\ ~result.raised
        /\ SomethingFails => (~result.report.is_valid /\ Len(Errors) >= 1)
        /\ ~SomethingFails => (result.report.is_valid /\ Errors = <<>>)

\* a mapping with a key that is no str, handed to validate_yaml_file: the
\* TypeError of the constructor is reported
C14_Witness ==
    /\ op = "validate_yaml_file"
    /\ source.kind = "mapping"
    /\ ~Data.str_keys
    /\ ~result.raised
    /\ ~result.report.is_valid
    /\ Len(Errors) = 1
    /\ Errors[1].kind = "Unexpected validation error"

\* C15: a text or file that is empty or null, whose root is no mapping, that
\* is missing or has a syntax error gives an invalid result with exactly one
\* error, the structural one; no field or consistency error comes with it.
C15_StructuralFailureAlone ==
    (Validated /\ source.kind # "mapping") =>
        /\ ~result.raised
        /\ ~result.report.is_valid
        /\ Len(Errors) = 1
        /\ Errors[1].kind \in StructuralMessages
        /\ Errors[1].field = <<>>

\* validate_yaml_string on a text that loads as None
C15_Witness ==
    /\ op = "validate_yaml_string"
    /\ source.kind = "null"
    /\ Len(Errors) = 1
    /\ Errors[1].kind = "YAML content is empty or contains only null values"

\* the macros of the document that break a constraint on names or values
InvalidMacros(data) ==
    {k \in DOMAIN data.macros :
        \/ Len(data.macros[k][1]) >= 64
        \/ ~MatchesNamePattern(data.macros[k][1])
        \/ data.macros[k][1] \in reserved_names
        \/ Len(data.macros[k][2]) >= 1024}

\* the entries of an env list that have no "="
MalformedEnv(model) == {k \in DOMAIN model.env : ~Search(model.env[k], <<"=">>)}

RECURSIVE Sum(_, _)
Sum(numbers, k) == IF k > Len(numbers) THEN 0 ELSE numbers[k] + Sum(numbers, k + 1)

\* the violations of field constraints in a model: a missing or blank cmd,
\* a proxy with another scheme, each malformed env entry
ModelViolations(model) ==
    (IF validate_cmd(model.id, model.cmd) # <<>> THEN 1 ELSE 0)
    + (IF validate_proxy(model.id, model.proxy) # <<>> THEN 1 ELSE 0)
    + Cardinality(MalformedEnv(model))

\* the violations of field constraints in a document, each macro, env
\* entry, model field, group and top-level field counted once
FieldViolations(data) ==
    (IF healthCheckTimeout_errors(data.healthCheckTimeout) # <<>> THEN 1 ELSE 0)
    + (IF validate_log_level(data.logLevel) # <<>> THEN 1 ELSE 0)
    + (IF startPort_errors(data.startPort) # <<>> THEN 1 ELSE 0)
    + (IF ~data.has_models \/ data.models = <<>> THEN 1 ELSE 0)
    + Sum([i \in DOMAIN data.models |-> ModelViolations(data.models[i])], 1)
    + Cardinality({i \in DOMAIN data.groups :
                      validate_members(data.groups[i].id, data.groups[i].members) # <<>>})
    + Cardinality(InvalidMacros(data))

\* C16: a document with k violations of field constraints gives a result
\* with k errors, one for each violation.
C16_OneErrorPerViolation ==
    (Validated /\ Parsed /\ FieldViolations(Data) > 0) =>
        Len(Errors) = FieldViolations(Data)

\* the aliases that two different models declare
SharedAliases(data) ==
    {a \in aliases_to_model(data) :
        \E i, j \in DOMAIN data.models :
            i # j /\ a \in Range(data.models[i].aliases) /\ a \in Range(data.models[j].aliases)}

\* the preload entries that are neither a model id nor an alias
UnknownPreloads(data) ==
    {x \in Range(data.preload) : x \notin ModelIds(data) /\ x \notin aliases_to_model(data)}

\* the <<model id, field name>> pairs of the checked fields that hold a
\* ${name} token whose name is no runtime macro and no macro of the document
UnknownReferences(data) ==
    {<<data.models[i].id, <<CheckedFields(data.models[i])[f][1]>> >> :
        <<i, f>> \in {<<i, f>> \in (DOMAIN data.models) \X (1..4) :
            \E name \in Range(FindNames(CheckedFields(data.models[i])[f][2])) :
                name \notin reserved_names /\ name \notin MacroNames(data.macros)}}

\* the document passes the field constraints
FieldsPass == Parsed /\ field_errors(Data) = <<>>

\* C17: a document that passes the field constraints has, in one result, an
\* error for every consistency rule that it violates: duplicate alias,
\* unknown preload entry, unknown macro reference, port usage, circular
\* macro.
C17_AllConsistencyErrors ==
    (Validated /\ FieldsPass) =>
        /\ SharedAliases(Data) # {} => ErrorsOfKind("Duplicate alias found in models") # {}
        /\ UnknownPreloads(Data) # {} =>
              ErrorsOfKind("Hooks preload references unknown model") # {}
        /\ (Data.macros # <<>> /\ UnknownReferences(Data) # {}) =>
              ErrorsOfKind("Unknown macro in model field") # {}
        /\ (\E i \in DOMAIN Data.models : PortInconsistent(Data.models[i])) =>
              ErrorsOfKind("proxy uses ${PORT} but cmd does not") # {}
        /\ CircularMacros(Data) # {} =>
              ErrorsOfKind("Circular reference detected in macro") # {}

\* the members of groups that are no model ids, and the models that are
\* members of more than one group
UndefinedMembers(data) ==
    {ms[2] : ms \in {x \in Range(Memberships(data.groups, 1)) : x[2] \notin ModelIds(data)}}
MultiplyGrouped(data) ==
    {m \in ModelIds(data) :
        \E i, j \in DOMAIN data.groups :
            i # j /\ m \in Range(data.groups[i].members) /\ m \in Range(data.groups[j].members)}

\* the names that the errors of the result mention
Mentioned == UNION {Range(Errors[i].about) : i \in DOMAIN Errors}

\* C18: when the groups of a document hold undefined members and a model
\* that is in more than one group, the result mentions every undefined
\* member and the multiply grouped model.
C18_GroupViolationsTogether ==
    (Validated /\ FieldsPass /\ SharedAliases(Data) = {}
       /\ UndefinedMembers(Data) # {} /\ MultiplyGrouped(Data) # {}) =>
        (UndefinedMembers(Data) \cup MultiplyGrouped(Data)) \subseteq Mentioned

\* C19: when two models of a document that passes the field constraints
\* declare the same alias, the result is invalid and has exactly one
\* duplicate-alias error; it names an alias that both declare and the two
\* models that own it, the one that comes first in the document first.
C19_OneDuplicateAliasError ==
    (Validated /\ FieldsPass /\ SharedAliases(Data) # {}) =>
        /\ ~result.report.is_valid
        /\ Cardinality(ErrorsOfKind("Duplicate alias found in models")) = 1
        /\ \A e \in ErrorsOfKind("Duplicate alias found in models") :
              LET alias == Errors[e].about[1]
                  first == Errors[e].about[2]
                  second == Errors[e].about[3]
                  Declares(id) == \E i \in DOMAIN Data.models :
                                      Data.models[i].id = id /\ alias \in Range(Data.models[i].aliases)
                  Position(id) == Least({i \in DOMAIN Data.models : Data.models[i].id = id})
              IN  /\ alias \in SharedAliases(Data)
                  /\ Declares(first) /\ Declares(second)
                  /\ first # second
                  /\ Position(first) < Position(second)

\* C20: when a checked field of a model of a document that passes the field
\* constraints holds a ${name} token whose name is no runtime macro and no
\* macro of the document, the result is invalid and has an unknown-macro
\* error that names the model and the field; so also when the document has
\* no macros.
C20_UnknownMacroReported ==
    (Validated /\ FieldsPass /\ UnknownReferences(Data) # {}) =>
        /\ ~result.report.is_valid
        /\ \E e \in ErrorsOfKind("Unknown macro in model field") :
              <<Errors[e].about[2], Errors[e].about[3]>> \in UnknownReferences(Data)

\* a checked field of a model holds the text ${${
NestedFields(data) ==
    {<<i, f>> \in (DOMAIN data.models) \X (1..4) :
        Search(CheckedFields(data.models[i])[f][2], <<"$", "{", "$", "{">>)}

\* C21: when cmd, cmdStop, proxy or checkEndpoint of a model of a document
\* that passes the field constraints holds the text ${${, the result is
\* invalid and has a nested-macro error, whatever macros the document has.
C21_NestedLiteralRejected ==
    (Validated /\ FieldsPass /\ NestedFields(Data) # {}) =>
        /\ ~result.report.is_valid
        /\ ErrorsOfKind("Nested macro detected in model field") # {}

\* the document passes the field constraints and the consistency validator
ConstructorPasses == FieldsPass /\ validate_config_consistency(Data) = <<>>

\* the errors of one kind that are about one name
ErrorsAbout(kind, name) == {e \in ErrorsOfKind(kind) : Errors[e].about = <<name>>}

\* C22: after the field constraints and the other consistency checks have
\* passed, the result has exactly one port-consistency error for each model
\* whose proxy (the default http://localhost:${PORT} when it gives none)
\* holds ${PORT} while its cmd does not, and none for any other model.
C22_PortUsage ==
    (Validated /\ ConstructorPasses) =>
        /\ \A i \in DOMAIN Data.models :
              Cardinality(ErrorsAbout("proxy uses ${PORT} but cmd does not", Data.models[i].id))
                  = IF PortInconsistent(Data.models[i]) THEN 1 ELSE 0
        /\ \A e \in ErrorsOfKind("proxy uses ${PORT} but cmd does not") :
              \E i \in DOMAIN Data.models : Errors[e].about = <<Data.models[i].id>>

\* a model with a port error beside a model without, the first of them
\* using the default proxy
C22_Witness ==
    /\ Validated /\ ConstructorPasses
    /\ \E i, j \in DOMAIN Data.models :
          /\ PortInconsistent(Data.models[i]) /\ Data.models[i].proxy = Absent
          /\ ~PortInconsistent(Data.models[j])
    /\ Cardinality(ErrorsOfKind("proxy uses ${PORT} but cmd does not")) = 1

\* the declared macros that the value of macro m names in a ${name} token
NameRefs(macros, m) ==
    {x \in Range(FindNames(MacroValue(macros, m))) : x \in MacroNames(macros)}

RECURSIVE NameClosure(_, _, _)
NameClosure(macros, S, k) ==
    IF k = 0 THEN S
    ELSE NameClosure(macros, S \cup UNION {NameRefs(macros, m) : m \in S}, k - 1)

\* the declared macros on a chain of references that starts at m (m included)
NameReach(macros, m) == NameClosure(macros, {m}, Len(macros))

\* m lies on a cycle of references
OnNameCycle(macros, m) == \E x \in NameRefs(macros, m) : m \in NameReach(macros, x)

\* a cycle of references is reachable from m
CycleFrom(macros, m) == \E x \in NameReach(macros, m) : OnNameCycle(macros, x)

\* the declared macros that a checked field of some model names
ReferencedByModels(data) ==
    UNION {Range(FindNames(CheckedFields(data.models[i])[f][2])) :
              <<i, f>> \in (DOMAIN data.models) \X (1..4)}

\* C23: after the field constraints and the other consistency checks have
\* passed, the result has one circular-reference error naming m for every
\* declared macro m from which a cycle of references among declared macros
\* is reachable, whether a model references m or not, and none for any
\* other macro.
C23_StaticCycles ==
    (Validated /\ ConstructorPasses) =>
        /\ \A m \in MacroNames(Data.macros) :
              Cardinality(ErrorsAbout("Circular reference detected in macro", m))
                  = IF CycleFrom(Data.macros, m) THEN 1 ELSE 0
        /\ \A e \in ErrorsOfKind("Circular reference detected in macro") :
              \E m \in MacroNames(Data.macros) : Errors[e].about = <<m>>

\* a macro that no model references and that leads to a cycle it is not on
\* has its error, beside a macro without one
C23_Witness ==
    /\ Validated /\ ConstructorPasses
    /\ \E m, n \in MacroNames(Data.macros) :
          /\ CycleFrom(Data.macros, m) /\ ~OnNameCycle(Data.macros, m)
          /\ m \notin ReferencedByModels(Data)
          /\ ErrorsAbout("Circular reference detected in macro", m) # {}
          /\ ~CycleFrom(Data.macros, n)
          /\ ErrorsAbout("Circular reference detected in macro", n) = {}

\* the reserved names that the macros of the document declare
ReservedDeclared(data) == MacroNames(data.macros) \cap {PORT, MODEL_ID, PID}

\* C24: a document whose macros declare PORT, MODEL_ID or PID has an invalid
\* result with a reserved-name error for that macro, whatever else the
\* document and its macros hold.
C24_ReservedNameRejected ==
    (Validated /\ source.kind = "mapping") =>
        \A n \in ReservedDeclared(Data) :
            /\ ~result.report.is_valid
            /\ ErrorsAbout("Macro name is reserved", n) # {}

\* an env entry with exactly one "=", after a key that is not empty
WellFormedEnv(entry) ==
    /\ Cardinality({k \in DOMAIN entry : entry[k] = "="}) = 1
    /\ entry[1] # "="

\* C25: a document with an env entry that has no "=", an empty key or more
\* than one "=" has an invalid result with an environment-variable format
\* error.
C25_EnvFormat ==
    (Validated /\ source.kind = "mapping"
       /\ \E i \in DOMAIN Data.models :
             \E k \in DOMAIN Data.models[i].env : ~WellFormedEnv(Data.models[i].env[k])) =>
        /\ ~result.report.is_valid
        /\ ErrorsOfKind("Environment variable must be in format KEY=value, got") # {}

\* the errors of the consistency checks
ConsistencyKinds ==
    { "Duplicate alias found in models",
      "Model is referenced in multiple groups",
      "Undefined model references found",
      "Hooks preload references unknown model",
      "Unknown macro in model field",
      "Nested macro detected in model field",
      "proxy uses ${PORT} but cmd does not",
      "Circular reference detected in macro" }

\* the errors of the two checks that run on the constructed config
LateKinds ==
    { "proxy uses ${PORT} but cmd does not",
      "Circular reference detected in macro" }

\* the errors of the result that a field constraint gave, and those that a
\* consistency check gave
FieldErrors == {i \in DOMAIN Errors : Errors[i].field # <<>>}
ConsistencyErrors == {i \in DOMAIN Errors : Errors[i].kind \in ConsistencyKinds}

\* C26: no result holds both a field-constraint error and a consistency
\* error; a consistency error appears only for a document without any
\* violation of a field constraint; and a port-usage or static-cycle error
\* appears only in a result whose errors are all of these two checks.
C26_TwoPhases ==
    Validated =>
        /\ FieldErrors = {} \/ ConsistencyErrors = {}
        /\ ConsistencyErrors # {} => (Parsed /\ FieldViolations(Data) = 0)
        /\ (\E i \in DOMAIN Errors : Errors[i].kind \in LateKinds) =>
              \A j \in DOMAIN Errors : Errors[j].kind \in LateKinds

\* a document that violates a field constraint and shares an alias between
\* two models, and has a port inconsistency, is reported with field errors
\* only
C26_Witness ==
    /\ Validated /\ Parsed
    /\ FieldViolations(Data) > 0
    /\ SharedAliases(Data) # {}
    /\ FieldErrors # {}
    /\ ConsistencyErrors = {}

\* a document that passes the field constraints, shares an alias and has a
\* port inconsistency is reported with the alias error only
C26_WitnessLate ==
    /\ Validated /\ FieldsPass
    /\ SharedAliases(Data) # {}
    /\ \E i \in DOMAIN Data.models : PortInconsistent(Data.models[i])
    /\ Cardinality(ConsistencyErrors) = 1
    /\ \A j \in DOMAIN Errors : Errors[j].kind \notin LateKinds

\* C27: when no cycle is reachable from a defined macro, the string that
\* expand_macro returns for it holds no ${x} token whose name x is a key of
\* the table.
C27_NoDefinedTokenLeft ==
    (Called /\ macro_name \in DOMAIN all_macros
       /\ ~CycleReachable(all_macros, macro_name)) =>
        /\ ~expanded.err
        /\ \A x \in Range(FindAll(expanded.val)) : x \notin DOMAIN all_macros

\* the macros of a document as the table that expand_macro reads
TableOf(macros) == [n \in MacroNames(macros) |-> MacroValue(macros, n)]

\* every macro name is made of the characters a-z, A-Z, 0-9, _ and -
PlainNames(macros) ==
    \A n \in MacroNames(macros) : n # <<>> /\ \A k \in DOMAIN n : n[k] \in NameChars

\* C28: for the macros of a document that passes the field constraints and
\* the other consistency checks, and every declared macro m, the result of
\* validation has a circular-reference error for m exactly when
\* expand_macro(m, table) raises the circular-reference error.
C28_StaticAgreesWithDynamic ==
    (Validated /\ ConstructorPasses /\ PlainNames(Data.macros)) =>
        \A m \in MacroNames(Data.macros) :
            (ErrorsAbout("Circular reference detected in macro", m) # {})
                <=> expand_macro(m, TableOf(Data.macros), {}).err

====
